---- MODULE Spec2Model ----
(***************************************************************************)
(* violetear: an HTTP router.  Router.Handle / Router.AddRegex build a     *)
(* trie of path segments and a registry of named patterns; ServeHTTP       *)
(* splits the request path, resolves the deepest literal node (Trie.Get)   *)
(* and runs Router.match over what remains.                                *)
(*                                                                         *)
(* A Go string is modelled as a sequence of chunks (a chunk is a run of    *)
(* characters no operation of the router ever cuts): "/a/:id#v1" is        *)
(* <<"/", "a", "/", ":", "id", "#", "v1">>.  A path segment, a method      *)
(* name and a version are strings as well, so strings.Index,               *)
(* strings.HasPrefix, strings.FieldsFunc and strings.TrimSpace are        *)
(* computed, not assumed.                                                  *)
(***************************************************************************)
EXTENDS Integers, Sequences, FiniteSets, TLC

VARIABLES
    dynamicRoutes,  \* Router.dynamicRoutes: name -> compiled pattern
    routes,         \* Router.routes: the trie, node id -> node
    regs,           \* history: the successful Handle calls, in order
    last,           \* history: the operation that ran last
    call,           \* history: the arguments of the last Handle / AddRegex
    ret,            \* the error value the last Handle / AddRegex returned
    req,            \* the request ServeHTTP served last
    resp,           \* what ServeHTTP dispatched for it
    served1,        \* history: the first request served, its response, and the
                    \* trie and registry it was served from
    mem,            \* backing arrays of the path slices of in-flight requests
    procs           \* in-flight requests of the concurrent serve phase

vars == <<dynamicRoutes, routes, regs, last, call, ret, req, resp, served1, mem, procs>>

\* Bounds of the model.
MaxRoutes == 2
MaxSegs == 3

Nil == "nil"

----------------------------------------------------------------------------
\* Strings

RECURSIVE Index(_, _)
\* strings.Index for a one-chunk separator: 1-based position, 0 when absent
\* (Go: 0-based, -1 when absent).
Index(s, c) ==
    IF s = <<>> THEN 0
    ELSE IF Head(s) = c THEN 1
    ELSE LET i == Index(Tail(s), c) IN IF i = 0 THEN 0 ELSE i + 1

RECURSIVE LastIndex(_, _)
\* strings.LastIndex, same convention.
LastIndex(s, c) ==
    IF s = <<>> THEN 0
    ELSE IF s[Len(s)] = c THEN Len(s)
    ELSE LastIndex(SubSeq(s, 1, Len(s) - 1), c)

\* strings.HasPrefix(s, c) for a one-chunk prefix.
HasPrefix(s, c) == Len(s) > 0 /\ s[1] = c

RECURSIVE TrimLeft(_)
TrimLeft(s) == IF s # <<>> /\ Head(s) = " " THEN TrimLeft(Tail(s)) ELSE s

RECURSIVE TrimRight(_)
TrimRight(s) ==
    IF s # <<>> /\ s[Len(s)] = " " THEN TrimRight(SubSeq(s, 1, Len(s) - 1)) ELSE s

\* strings.TrimSpace
TrimSpace(s) == TrimRight(TrimLeft(s))

RECURSIVE FieldsFunc(_, _)
\* strings.FieldsFunc(s, func(c) bool { return c == sep }): the maximal runs
\* of chunks that are not the separator.
FieldsFunc(s, sep) ==
    IF s = <<>> THEN <<>>
    ELSE IF Head(s) = sep THEN FieldsFunc(Tail(s), sep)
    ELSE LET i == Index(s, sep)
             n == IF i = 0 THEN Len(s) ELSE i - 1
         IN  <<SubSeq(s, 1, n)>> \o FieldsFunc(SubSeq(s, n + 1, Len(s)), sep)

\* const versionHeader
versionHeader == "application/vnd."

\* The method sentinel of Handle and checkMethod.
ALL == <<"ALL">>

\* The catch-all segment.
Star == <<"*">>

----------------------------------------------------------------------------
\* Router.splitPath

splitPath(p) ==
    LET pathParts == FieldsFunc(p, "/")
    IN  IF Len(pathParts) = 0 THEN << <<"/">> >> ELSE pathParts

----------------------------------------------------------------------------
\* The dynamic-segment registry (dynamicSet) and its patterns.

\* The pattern sources the model registers.
RxDigits == <<"\\d+">>
RxWord == <<"\\w+">>
RxBad == <<"(">>

\* regexp.Compile: whether the source compiles.
Compiles(regex) == regex \in {RxDigits, RxWord}

\* Regexp.MatchString of a compiled pattern on a path segment.
MatchString(rx, seg) ==
    CASE rx = RxDigits -> seg \in {<<"42">>}
      [] rx = RxWord -> seg \in {<<"42">>, <<"a">>, <<"b">>}
      [] OTHER -> FALSE

\* dynamicSet.Set: compiles the pattern; the last write for a name wins.
DynSet(dyn, name, regex) ==
    IF ~Compiles(regex) THEN [dyn |-> dyn, err |-> "InvalidPattern"]
    ELSE [dyn |-> [n \in DOMAIN dyn \cup {name} |->
                       IF n = name THEN regex ELSE dyn[n]],
          err |-> Nil]

----------------------------------------------------------------------------
\* Trie

\* &Trie{}: a node with no handler, no child and both flags clear.  A node
\* is identified by the segments it was created under; its own segment is
\* the field path.
NewNode(key) ==
    [path |-> key, Handler |-> <<>>, HasCatchall |-> FALSE,
     HasRegex |-> FALSE, Node |-> <<>>]

Root == <<>>

\* The child of node `at` whose segment equals key (token equality), or Nil.
Child(t, at, key) ==
    LET hit == {i \in 1..Len(t[at].Node) : t[t[at].Node[i]].path = key}
    IN  IF hit = {} THEN Nil
        ELSE t[at].Node[CHOOSE i \in hit : \A j \in hit : i <= j]

RECURSIVE PutEntries(_, _, _, _)
\* One handler-table entry per method token; an entry of the same
\* (method, version) is overwritten in place, a new one is appended.
PutEntries(tab, methods, version, handler) ==
    IF methods = <<>> THEN tab
    ELSE LET m == Head(methods)
             hit == {i \in 1..Len(tab) :
                         tab[i].Method = m /\ tab[i].Version = version}
             e == [Method |-> m, Version |-> version, Handler |-> handler]
             tab1 == IF hit = {} THEN Append(tab, e)
                     ELSE [i \in 1..Len(tab) |-> IF i \in hit THEN e ELSE tab[i]]
         IN  PutEntries(tab1, Tail(methods), version, handler)

RECURSIVE TrieSet(_, _, _, _, _, _)
\* Trie.Set(path, handler, method, version) on node `at`: one node per
\* segment, reusing the nodes of a shared prefix; the flags of the parent of
\* a new dynamic or catch-all node are set; the entries go to the last node.
TrieSet(t, at, path, handler, method, version) ==
    LET key == Head(path)
        old == Child(t, at, key)
        id == IF old = Nil THEN Append(at, key) ELSE old
        t1 == IF old # Nil THEN t
              ELSE [n \in DOMAIN t \cup {id} |->
                       IF n = id THEN NewNode(key)
                       ELSE IF n = at
                            THEN [t[at] EXCEPT
                                    !.Node = Append(@, id),
                                    !.HasRegex = @ \/ HasPrefix(key, ":"),
                                    !.HasCatchall = @ \/ key = Star]
                            ELSE t[n]]
    IN  IF Len(path) = 1
        THEN [t1 EXCEPT ![id].Handler =
                 PutEntries(@, FieldsFunc(method, ","), version, handler)]
        ELSE TrieSet(t1, id, Tail(path), handler, method, version)

\* Version selection over a handler table: the entries of the request's
\* version, or the version-less entries when there is none.
VersionSelect(tab, version) ==
    LET of(v) == SelectSeq(tab, LAMBDA e : e.Version = v)
    IN  IF of(version) # <<>> THEN of(version) ELSE of(<<>>)

RECURSIVE TrieGet(_, _, _, _)
\* Trie.Get(path, version) on node `at`: descends by token equality as deep
\* as it can.  Returns the node reached, its version-selected handler table,
\* the segments not consumed, and whether they were all consumed at a node
\* that carries handler entries.
TrieGet(t, at, path, version) ==
    LET nxt == IF path = <<>> THEN Nil ELSE Child(t, at, Head(path))
    IN  IF nxt = Nil
        THEN [node |-> at, Handler |-> VersionSelect(t[at].Handler, version),
              path |-> path,
              leaf |-> path = <<>> /\ Len(t[at].Handler) > 0]
        ELSE TrieGet(t, nxt, Tail(path), version)

\* Params.Add: a new collector with the pair appended.
ParamsAdd(params, name, value) == Append(params, <<name, value>>)

----------------------------------------------------------------------------
\* Router.checkMethod and Router.match

\* The handlers a request can be dispatched to: the one given to the k-th
\* successful Handle call, http.NotFoundHandler(), Router.MethodNotAllowed(),
\* and the 500 that ServeHTTP answers after recovering a panic.
HandlerOf(k) == <<"handler", k>>
NotFound == <<"NotFound">>
MethodNotAllowed == <<"MethodNotAllowed">>
Panic == <<"panic">>

checkMethod_noALL(tab, method) ==
    LET hit == {i \in 1..Len(tab) : tab[i].Method = method}
    IN  IF hit = {} THEN MethodNotAllowed
        ELSE tab[CHOOSE i \in hit : \A j \in hit : i <= j].Handler

\* checkMethod(node, method) over node.Handler: the handler of the first
\* entry whose method is "ALL" or the request's; else the 405 responder
\* (NotAllowedHandler is nil after New()).
checkMethod(tab, method) ==
    LET hit == {i \in 1..Len(tab) : tab[i].Method = ALL \/ tab[i].Method = method}
    IN  IF hit = {} THEN MethodNotAllowed
        ELSE tab[CHOOSE i \in hit : \A j \in hit : i <= j].Handler

\* The result of match: the handler, the Params, whether the call panicked,
\* and (history) the branch that returned and the node it returned at.
Result(h, params, via, at) ==
    [h |-> h, params |-> params, fault |-> FALSE, via |-> via, at |-> at]

Fault(params, at) ==
    [h |-> Panic, params |-> params, fault |-> TRUE, via |-> "fault", at |-> at]

DynScan_last(t, dyn, id, path) ==
    LET kids == t[id].Node
        dynIdx == {i \in 1..Len(kids) : HasPrefix(t[kids[i]].path, ":")}
        okIdx == {i \in dynIdx : t[kids[i]].path \in DOMAIN dyn
                                 /\ path # <<>>
                                 /\ MatchString(dyn[t[kids[i]].path], path[1])}
    IN  IF dynIdx = {} THEN [kind |-> "none", child |-> Nil]
        ELSE IF path = <<>> THEN [kind |-> "fault", child |-> Nil]
        ELSE IF okIdx = {} THEN [kind |-> "none", child |-> Nil]
        ELSE [kind |-> "hit",
              child |-> kids[CHOOSE i \in okIdx : \A j \in okIdx : j <= i]]

\* The loop of match over node.Node (lines 177-188): the first child, in
\* insertion order, that is dynamic and whose pattern matches path[0].
\* Reading path[0] of an empty slice, or matching with the zero Regexp of a
\* name the registry lacks, panics at the first dynamic child examined.
DynScan(t, dyn, id, path) ==
    LET kids == t[id].Node
        dynIdx == {i \in 1..Len(kids) : HasPrefix(t[kids[i]].path, ":")}
        okIdx == {i \in dynIdx : t[kids[i]].path \in DOMAIN dyn
                                 /\ path # <<>>
                                 /\ MatchString(dyn[t[kids[i]].path], path[1])}
        badIdx == {i \in dynIdx : t[kids[i]].path \notin DOMAIN dyn}
        first(S) == CHOOSE i \in S : \A j \in S : i <= j
    IN  IF dynIdx = {} THEN [kind |-> "none", child |-> Nil]
        ELSE IF path = <<>> THEN [kind |-> "fault", child |-> Nil]
        ELSE IF badIdx # {} /\ (okIdx = {} \/ first(badIdx) < first(okIdx))
             THEN [kind |-> "fault", child |-> Nil]
        ELSE IF okIdx = {} THEN [kind |-> "none", child |-> Nil]
        ELSE [kind |-> "hit", child |-> kids[first(okIdx)]]

matchCatchall_keepParams(t, id, path, params, method) ==
    LET kids == t[id].Node
        hit == {i \in 1..Len(kids) : t[kids[i]].path = Star}
    IN  IF ~t[id].HasCatchall \/ hit = {}
        THEN Result(NotFound, params, "notfound", id)
        ELSE IF path = <<>> THEN Fault(params, id)
        ELSE LET n == kids[CHOOSE i \in hit : \A j \in hit : i <= j]
             IN  Result(checkMethod(t[n].Handler, method), params, "catchall", n)

\* The catch-all part of match (lines 195-203) at node id.
matchCatchall(t, id, path, params, method) ==
    LET kids == t[id].Node
        hit == {i \in 1..Len(kids) : t[kids[i]].path = Star}
    IN  IF ~t[id].HasCatchall \/ hit = {}
        THEN Result(NotFound, params, "notfound", id)
        ELSE IF path = <<>> THEN Fault(params, id)
        ELSE LET n == kids[CHOOSE i \in hit : \A j \in hit : i <= j]
             IN  Result(checkMethod(t[n].Handler, method),
                        ParamsAdd(params, Star, path[1]), "catchall", n)

RECURSIVE match(_, _, _, _, _, _, _, _)
\* match(node, path, leaf, params, method, version); node is what Trie.Get
\* returned: the node's id and the handler table seen through it.
match(t, dyn, node, path, leaf, params, method, version) ==
    IF Len(node.Handler) > 0 /\ leaf
    THEN Result(checkMethod(node.Handler, method), params, "leaf", node.id)
    ELSE IF t[node.id].HasRegex
    THEN LET s == DynScan(t, dyn, node.id, path)
         IN  IF s.kind = "fault" THEN Fault(params, node.id)
             ELSE IF s.kind = "hit"
             THEN LET n == t[s.child].path
                      g == TrieGet(t, node.id, <<n>> \o Tail(path), version)
                  IN  match(t, dyn, [id |-> g.node, Handler |-> g.Handler],
                            g.path, g.leaf,
                            ParamsAdd(params, n, path[1]), method, version)
             ELSE matchCatchall(t, node.id, path, params, method)
    ELSE matchCatchall(t, node.id, path, params, method)

----------------------------------------------------------------------------
\* Router.Handle, Router.AddRegex, Router.ServeHTTP

\* The part of a registered path before the first "#" and the version
\* after it (lines 103-107).
pathVersion(path) ==
    LET i == Index(path, "#")
    IN  IF i # 0
        THEN [path |-> SubSeq(path, 1, i - 1),
              version |-> SubSeq(path, i + 1, Len(path))]
        ELSE [path |-> path, version |-> <<>>]

\* A variant that takes a blank method string for a method list.
acceptedMethods_noTrim(httpMethods) ==
    IF Len(httpMethods) > 0 /\ Len(httpMethods[1]) > 0
    THEN httpMethods[1]
    ELSE ALL

\* "if no methods, accept ALL" (lines 119-123).
acceptedMethods(httpMethods) ==
    IF Len(httpMethods) > 0 /\ Len(TrimSpace(httpMethods[1])) > 0
    THEN httpMethods[1]
    ELSE ALL

HandleResult_insertFirst(t, dyn, path, handler, httpMethods) ==
    LET pv == pathVersion(path)
        pathParts == splitPath(pv.path)
        methods == acceptedMethods(httpMethods)
        bad == {i \in 1..Len(pathParts) :
                   HasPrefix(pathParts[i], ":") /\ pathParts[i] \notin DOMAIN dyn}
        k == CHOOSE i \in bad : \A j \in bad : i <= j
    IN  [routes |-> IF bad = {}
                    THEN TrieSet(t, Root, pathParts, handler, methods, pv.version)
                    ELSE IF k = 1 THEN t
                    ELSE TrieSet(t, Root, SubSeq(pathParts, 1, k - 1), handler,
                                 <<>>, pv.version),
         err |-> IF bad = {} THEN Nil ELSE "not found, need to add it using AddRegex",
         parts |-> pathParts, methods |-> methods, version |-> pv.version]

\* Handle(path, handler, httpMethods...): what it leaves in the trie and
\* what it returns.
HandleResult(t, dyn, path, handler, httpMethods) ==
    LET pv == pathVersion(path)
        pathParts == splitPath(pv.path)
        methods == acceptedMethods(httpMethods)
        unknown == \E i \in 1..Len(pathParts) :
                       HasPrefix(pathParts[i], ":") /\ pathParts[i] \notin DOMAIN dyn
    IN  [routes |-> IF unknown THEN t
                    ELSE TrieSet(t, Root, pathParts, handler, methods, pv.version),
         err |-> IF unknown THEN "not found, need to add it using AddRegex" ELSE Nil,
         parts |-> pathParts, methods |-> methods, version |-> pv.version]

\* Registration ends when serving begins (the build phase of the router:
\* the calls before http.ListenAndServe).
Building == last # "ServeHTTP"

Handle(path, httpMethods) ==
    /\ Building
    /\ Len(regs) < MaxRoutes
    /\ LET handler == HandlerOf(Len(regs) + 1)
           r == HandleResult(routes, dynamicRoutes, path, handler, httpMethods)
       IN  /\ routes' = r.routes
           /\ ret' = r.err
           /\ regs' = IF r.err # Nil THEN regs
                      ELSE Append(regs, [parts |-> r.parts, methods |-> r.methods,
                                         version |-> r.version, handler |-> handler,
                                         httpMethods |-> httpMethods])
    /\ last' = "Handle"
    /\ call' = [path |-> path, httpMethods |-> httpMethods]
    /\ UNCHANGED <<dynamicRoutes, req, resp, served1, mem, procs>>

AddRegex(name, regex) ==
    /\ Building
    /\ LET r == DynSet(dynamicRoutes, name, regex)
       IN  /\ dynamicRoutes' = r.dyn
           /\ ret' = r.err
    /\ last' = "AddRegex"
    /\ call' = [name |-> name, regex |-> regex]
    /\ UNCHANGED <<routes, regs, req, resp, served1, mem, procs>>

\* "set version based on the value of Accept: application/vnd.*"
\* (lines 237-243).
requestVersion(accept) ==
    LET i == LastIndex(accept, versionHeader)
    IN  IF i # 0 THEN SubSeq(accept, i + 1, Len(accept)) ELSE <<>>

\* Lines 245-249 of ServeHTTP: Get on the split path, then match.
Serve(t, dyn, urlPath, method, accept) ==
    LET version == requestVersion(accept)
        g == TrieGet(t, Root, splitPath(urlPath), version)
    IN  match(t, dyn, [id |-> g.node, Handler |-> g.Handler], g.path, g.leaf,
              <<>>, method, version)

ServeHTTP_swapped(urlPath, method, accept) ==
    LET version == requestVersion(accept)
        g == TrieGet(routes, Root, splitPath(urlPath), version)
        s == DynScan(routes, dynamicRoutes, g.node, g.path)
        dyn == ~(Len(g.Handler) > 0 /\ g.leaf) /\ routes[g.node].HasRegex
                   /\ s.kind = "hit"
    IN  /\ resp' = Serve(routes, dynamicRoutes, urlPath, method, accept)
        /\ routes' = IF dyn THEN [routes EXCEPT ![s.child].path = g.path[1]]
                      ELSE routes
        /\ req' = [path |-> urlPath, method |-> method, accept |-> accept]
        /\ last' = "ServeHTTP"
        /\ call' = Nil
        /\ ret' = Nil
        /\ UNCHANGED <<dynamicRoutes, regs, mem, procs>>

\* ServeHTTP: the handler dispatched and the Params put in its context; a
\* panic is recovered into a 500.
ServeHTTP(urlPath, method, accept) ==
    /\ resp' = Serve(routes, dynamicRoutes, urlPath, method, accept)
    /\ req' = [path |-> urlPath, method |-> method, accept |-> accept]
    /\ last' = "ServeHTTP"
    /\ call' = Nil
    /\ ret' = Nil
    /\ UNCHANGED <<dynamicRoutes, routes, regs, mem, procs>>

----------------------------------------------------------------------------
\* Inputs

SeqsUpTo(S, n) == UNION {[1..k -> S] : k \in 0..n}

RECURSIVE JoinPath(_)
\* The URL path of a list of segments: "/" for none, "/s1/s2" otherwise.
JoinPath(segs) ==
    IF segs = <<>> THEN <<"/">>
    ELSE IF Len(segs) = 1 THEN <<"/">> \o segs[1]
    ELSE <<"/">> \o Head(segs) \o JoinPath(Tail(segs))

Id == <<":", "id">>
Word == <<":", "word">>
GET == <<"GET">>
POST == <<"POST">>
DELETE == <<"DELETE">>

\* Registrations of the routing specification.
HandleCalls ==
    {[path |-> p, httpMethods |-> << GET >>] :
        p \in {<<"/", "a">>, <<"/", "a", "/", "a">>,
               <<"/", "a", "/", ":", "id", "/", "a">>,
               <<"/", "a", "/", ":", "word">>,
               <<"*">>, <<"/", "a", "/", "*">>}}
    \cup {[path |-> <<"/", "a">>, httpMethods |-> <<>>]}

RegexCalls ==
    {[name |-> Id, regex |-> RxDigits], [name |-> Word, regex |-> RxWord],
     [name |-> Id, regex |-> RxBad]}

Requests ==
    {[path |-> JoinPath(s), method |-> m, accept |-> <<>>] :
        s \in SeqsUpTo({<<"a">>, <<"42">>, Id}, MaxSegs), m \in {GET, DELETE}}

\* After the first request the model serves the same request again, or one
\* of a few probe requests in between.
Probes ==
    {[path |-> <<"/", "a">>, method |-> GET, accept |-> <<>>],
     [path |-> <<"/", "a", "/", "42">>, method |-> DELETE, accept |-> <<>>]}

FollowUp(r, probes) == Building \/ r = req \/ r \in probes

NoReq == [path |-> <<>>, method |-> <<>>, accept |-> <<>>]

Init ==
    /\ dynamicRoutes = <<>>
    /\ routes = (Root :> NewNode(<<>>))
    /\ regs = <<>>
    /\ last = "New"
    /\ call = Nil
    /\ ret = Nil
    /\ req = NoReq
    /\ resp = Result(<<>>, <<>>, "none", Root)
    /\ served1 = [req |-> NoReq, resp |-> Result(<<>>, <<>>, "none", Root),
                  routes |-> <<>>, dynamicRoutes |-> <<>>]
    /\ mem = <<>>
    /\ procs = <<>>

Next ==
    \/ \E c \in HandleCalls : Handle(c.path, c.httpMethods)
    \/ \E c \in RegexCalls : AddRegex(c.name, c.regex)
    \/ \E r \in Requests :
           /\ FollowUp(r, Probes)
           /\ ServeHTTP(r.path, r.method, r.accept)
           /\ UNCHANGED served1

Spec == Init /\ [][Next]_vars

----------------------------------------------------------------------------
\* The same router, with the first request remembered: each later request
\* is that request again or a probe.

RequestsRepeat == {r \in Requests : r.method = GET}

NextRepeat ==
    \/ \E c \in HandleCalls : Handle(c.path, c.httpMethods)
    \/ \E c \in RegexCalls : AddRegex(c.name, c.regex)
    \/ \E r \in RequestsRepeat :
           /\ FollowUp(r, Probes \cup {served1.req})
           /\ ServeHTTP(r.path, r.method, r.accept)
           /\ served1' = IF Building
                         THEN [req |-> req', resp |-> resp', routes |-> routes,
                               dynamicRoutes |-> dynamicRoutes]
                         ELSE served1

SpecRepeat == Init /\ [][NextRepeat]_vars

----------------------------------------------------------------------------
\* Methods and versions: registrations that differ by method list and by
\* "#version", requests that differ by method and Accept header.

Vnd(v) == <<versionHeader, v>>

HandleCallsMV ==
    {[path |-> <<"/", "a">>, httpMethods |-> ms] :
        ms \in {<<>>, << <<" ">> >>, << GET >>, << <<"GET", ",", "POST">> >>}}
    \cup {[path |-> <<"/", "a", "#", v>>, httpMethods |-> << GET >>] :
             v \in {"v1", "v2"}}
    \cup {[path |-> <<"*", "#", v>>, httpMethods |-> <<>>] : v \in {"v1", "v2"}}
    \cup {[path |-> <<"*", "#", "v1">>, httpMethods |-> << GET >>]}

RequestsMV ==
    {[path |-> JoinPath(s), method |-> m, accept |-> a] :
        s \in SeqsUpTo({<<"a">>, <<"b">>}, MaxSegs - 1),
        m \in {GET, POST, DELETE},
        a \in {<<>>, <<"text/html">>, Vnd("v1"), Vnd("v2"),
               Vnd("v1") \o <<", ">> \o Vnd("v2")}}

NextMV ==
    \/ \E c \in HandleCallsMV : Handle(c.path, c.httpMethods)
    \/ \E r \in RequestsMV :
           /\ FollowUp(r, {})
           /\ ServeHTTP(r.path, r.method, r.accept)
           /\ UNCHANGED served1

SpecMV == Init /\ [][NextMV]_vars

----------------------------------------------------------------------------
\* Vocabulary of the properties: the request served last and the
\* registrations made, read from the history variables.

Served == last = "ServeHTTP"
ReqSegs ==
    LET f == FieldsFunc(req.path, "/") IN IF f = <<>> THEN << <<"/">> >> ELSE f
ReqVersion ==
    IF \E k \in DOMAIN req.accept : req.accept[k] = versionHeader
    THEN SubSeq(req.accept,
                1 + (CHOOSE k \in DOMAIN req.accept :
                        /\ req.accept[k] = versionHeader
                        /\ \A j \in DOMAIN req.accept :
                              req.accept[j] = versionHeader => j <= k),
                Len(req.accept))
    ELSE <<>>
Handlers == {regs[i].handler : i \in DOMAIN regs}
IsDynamic(seg) == Len(seg) > 0 /\ seg[1] = ":"
IsLiteralRoute(parts) ==
    \A k \in DOMAIN parts : ~IsDynamic(parts[k]) /\ parts[k] # Star
\* The method tokens a registration put in the table.
Tokens(r) == LET f == FieldsFunc(r.methods, ",") IN {f[k] : k \in DOMAIN f}
Accepts(r, m) == ALL \in Tokens(r) \/ m \in Tokens(r)
SamePlace(i, j) ==
    regs[i].parts = regs[j].parts /\ regs[i].version = regs[j].version
\* Registration i was made again later: same path, version and methods.
Reregistered(i) ==
    \E j \in DOMAIN regs :
        j > i /\ SamePlace(i, j) /\ regs[j].methods = regs[i].methods
IsPrefix(p, s) == Len(p) <= Len(s) /\ SubSeq(s, 1, Len(p)) = p

\* The request is for the all-literal route i: same segments, same version,
\* a method the route was registered with.
Addressed(i) ==
    /\ Served
    /\ IsLiteralRoute(regs[i].parts)
    /\ ReqSegs = regs[i].parts
    /\ ReqVersion = regs[i].version
    /\ Accepts(regs[i], req.method)

----------------------------------------------------------------------------
\* C1 -- as stated: a request for a registered all-literal route, with a
\* method the route was registered with, is answered by that route's handler
\* with empty Params (a route registered again counts once, as its latest
\* registration).
C1_Original ==
    \A i \in DOMAIN regs :
        Addressed(i) /\ ~Reregistered(i) =>
            resp.h = regs[i].handler /\ resp.params = <<>>

\* C1 -- amended: such a request is answered, with empty Params, by the
\* handler of a registration of that same path and version that accepts the
\* method; it is the route's own handler when no other registration of the
\* path and version accepts the method.  Dynamic and catch-all routes
\* registered alongside never take the request.
C1_LiteralRouteFound ==
    \A i \in DOMAIN regs :
        Addressed(i) =>
            /\ resp.params = <<>>
            /\ ~resp.fault
            /\ resp.h \in {regs[j].handler : j \in {k \in DOMAIN regs :
                               SamePlace(i, k) /\ Accepts(regs[k], req.method)}}

\* A literal route answered a request that a dynamic route registered before
\* it matches as well.
C1_Witness ==
    \E i, j \in DOMAIN regs :
        /\ Addressed(i)
        /\ resp.h = regs[i].handler
        /\ j < i
        /\ Len(regs[j].parts) = Len(regs[i].parts)
        /\ IsDynamic(regs[j].parts[Len(regs[j].parts)])
        /\ Len(ReqSegs) = 2

----------------------------------------------------------------------------
\* Route r, read as a pattern, matches the segments: a literal segment by
\* equality, a dynamic one by its registered pattern, "*" any one segment.
RouteMatches(r, segs) ==
    /\ Len(r.parts) = Len(segs)
    /\ \A k \in DOMAIN segs :
          IF IsDynamic(r.parts[k])
          THEN /\ r.parts[k] \in DOMAIN dynamicRoutes
               /\ MatchString(dynamicRoutes[r.parts[k]], segs[k])
          ELSE r.parts[k] = Star \/ r.parts[k] = segs[k]

IsCatchallRoute(r) == r.parts[Len(r.parts)] = Star
Prefix(r) == SubSeq(r.parts, 1, Len(r.parts) - 1)
ParamsNamed(name) == {j \in DOMAIN resp.params : resp.params[j][1] = name}

\* C2 -- a route with a dynamic segment answers only requests whose segment
\* at that position matches the pattern registered for the name, and Params
\* then holds exactly one pair (name, that segment); a request that fits the
\* route except that this segment does not match the pattern gets NotFound
\* when no catch-all is registered and no other route matches it.
C2_DynamicSegmentByPattern ==
    \A i \in DOMAIN regs : \A k \in DOMAIN regs[i].parts :
        LET parts == regs[i].parts
            name == parts[k]
        IN  Served /\ IsDynamic(name) =>
            /\ resp.h = regs[i].handler =>
                  /\ Len(ReqSegs) = Len(parts)
                  /\ MatchString(dynamicRoutes[name], ReqSegs[k])
                  /\ Cardinality(ParamsNamed(name)) = 1
                  /\ \E j \in DOMAIN resp.params :
                        resp.params[j] = <<name, ReqSegs[k]>>
            /\ ( /\ Len(ReqSegs) = Len(parts)
                 /\ \A j \in DOMAIN parts : j # k => parts[j] = ReqSegs[j]
                 /\ ~MatchString(dynamicRoutes[name], ReqSegs[k])
                 /\ \A j \in DOMAIN regs :
                       ~IsCatchallRoute(regs[j]) /\ ~RouteMatches(regs[j], ReqSegs)
               ) => resp.h = NotFound

----------------------------------------------------------------------------
\* The catch-all routes whose prefix the request extends by a segment or more.
CatchallsOver ==
    {j \in DOMAIN regs : /\ IsCatchallRoute(regs[j])
                         /\ IsPrefix(Prefix(regs[j]), ReqSegs)
                         /\ Len(ReqSegs) > Len(Prefix(regs[j]))}

\* C3 -- as stated: with a catch-all route registered, a request that no
\* literal or dynamic route matches is answered by a catch-all route's
\* handler and Params binds exactly one segment under "*" (requests the
\* catch-all accepts by method, and that match answers without panicking).
C3_Original ==
    \A i \in CatchallsOver :
        ( /\ Served
          /\ ~resp.fault
          /\ Accepts(regs[i], req.method)
          /\ \A j \in DOMAIN regs :
                ~IsCatchallRoute(regs[j]) => ~RouteMatches(regs[j], ReqSegs)
        ) => /\ resp.h \in {regs[j].handler : j \in CatchallsOver}
             /\ Cardinality(ParamsNamed(Star)) = 1

\* Some registered route continues the literal prefix p with the segment
\* seg: literally, or by a dynamic segment whose pattern matches it.
Continues(p, seg) ==
    \E j \in DOMAIN regs :
        LET parts == regs[j].parts
        IN  /\ IsPrefix(p, parts)
            /\ Len(parts) > Len(p)
            /\ \/ parts[Len(p) + 1] = seg
               \/ /\ IsDynamic(parts[Len(p) + 1])
                  /\ MatchString(dynamicRoutes[parts[Len(p) + 1]], seg)

\* C3 -- amended: a catch-all is consulted only at the node where the
\* descent stops.  A request that extends the literal prefix of a catch-all
\* route by a segment no registered route continues (literally or by a
\* matching dynamic segment) is resolved by method over the catch-all node's
\* table: a handler registered there that accepts the method, else
\* MethodNotAllowed.  Whenever the catch-all answers, Params ends with the
\* one pair ("*", the segment at the catch-all's position) and holds no
\* other "*" pair.
C3_CatchallAtStoppingNode ==
    /\ \A i \in CatchallsOver :
          LET p == Prefix(regs[i])
          IN  Served /\ IsLiteralRoute(p) /\ ~Continues(p, ReqSegs[Len(p) + 1])
              => resp.via = "catchall" /\ resp.at = regs[i].parts
    /\ Served /\ resp.via = "catchall" =>
          LET n == Len(resp.params)
              here == {j \in DOMAIN regs : /\ regs[j].parts = resp.at
                                           /\ Accepts(regs[j], req.method)}
          IN  /\ n >= 1
              /\ resp.params[n] = <<Star, ReqSegs[Len(resp.at)]>>
              /\ ParamsNamed(Star) = {n}
              /\ IF here = {} THEN resp.h = MethodNotAllowed
                 ELSE resp.h \in {regs[j].handler : j \in here}

\* The catch-all answered a request of several segments, binding the first
\* one it did not consume.
C3_Witness ==
    /\ Served
    /\ resp.via = "catchall"
    /\ resp.h \in Handlers
    /\ Len(ReqSegs) > Len(resp.at)

----------------------------------------------------------------------------
\* The path of a Handle call names a dynamic segment the registry lacks.
UnknownDynamic(path, dyn) ==
    LET i == Index(path, "#")
        segs == FieldsFunc(IF i = 0 THEN path ELSE SubSeq(path, 1, i - 1), "/")
    IN  \E k \in DOMAIN segs : IsDynamic(segs[k]) /\ segs[k] \notin DOMAIN dyn

\* C6 -- Handle on a path with a dynamic segment name not yet registered
\* returns an error and leaves the trie as it was: no node, no handler entry.
C6_UnknownDynamicRejected ==
    [][(last' = "Handle" /\ UnknownDynamic(call'.path, dynamicRoutes))
          => (ret' # Nil /\ routes' = routes /\ regs' = regs)]_vars

\* Handle refused a path whose unknown name follows a literal segment that
\* the trie does not hold.
C6_Witness ==
    /\ last = "Handle"
    /\ ret # Nil
    /\ UnknownDynamic(call.path, dynamicRoutes)
    /\ call.path[2] = "a"
    /\ routes[Root].Node = <<>>

----------------------------------------------------------------------------
\* C7 -- match never fails: every request ends in a registered handler,
\* NotFound or MethodNotAllowed, and path[0] is never read of an empty slice.
C7_MatchNeverFaults ==
    Served => ~resp.fault /\ resp.h \in Handlers \cup {NotFound, MethodNotAllowed}

----------------------------------------------------------------------------
\* C9 -- serving leaves the trie and the registry as they were when the
\* first request arrived, however many requests were served since, and the
\* first request served again, with other requests in between or not, gets
\* the handler and the Params it got the first time.
C9_MatchReadOnly ==
    Served =>
        /\ routes = served1.routes
        /\ dynamicRoutes = served1.dynamicRoutes
        /\ req = served1.req =>
              resp.h = served1.resp.h /\ resp.params = served1.resp.params

\* A request answered through a dynamic segment was served, then a probe,
\* then the same request again.
C9_Witness ==
    /\ Served
    /\ req = served1.req
    /\ resp.params # <<>>
    /\ resp.h \in Handlers
    /\ req \notin Probes

----------------------------------------------------------------------------
\* The first registration that created the child seg under the prefix p.
FirstReg(p, seg) ==
    LET S == {j \in DOMAIN regs : IsPrefix(Append(p, seg), regs[j].parts)}
    IN  CHOOSE j \in S : \A k \in S : j <= k

\* The dynamic segment names registered right under p whose pattern matches seg.
DynamicUnder(p, seg) ==
    {regs[j].parts[Len(p) + 1] : j \in {k \in DOMAIN regs :
        /\ IsPrefix(p, regs[k].parts)
        /\ Len(regs[k].parts) > Len(p)
        /\ IsDynamic(regs[k].parts[Len(p) + 1])
        /\ MatchString(dynamicRoutes[regs[k].parts[Len(p) + 1]], seg)}}

\* The longest prefix of the request that literal descent consumes: each of
\* its segments continues a registered route literally.
RECURSIVE Descent(_)
Descent(n) ==
    IF n < Len(ReqSegs)
       /\ \E j \in DOMAIN regs : IsPrefix(SubSeq(ReqSegs, 1, n + 1), regs[j].parts)
    THEN Descent(n + 1)
    ELSE n

\* C10 -- where the literal descent stops with segments left and several
\* dynamic children match the next segment, the one registered first takes
\* the request: Params starts with (its name, the segment), and the request
\* is answered by a handler registered below that child or by
\* NotFound / MethodNotAllowed, never by a route below a later sibling.
C10_FirstDynamicChildWins ==
    LET n == Descent(0)
        p == SubSeq(ReqSegs, 1, n)
        seg == ReqSegs[n + 1]
        D == DynamicUnder(p, seg)
        c == CHOOSE d \in D : \A e \in D : FirstReg(p, d) <= FirstReg(p, e)
    IN  Served /\ n < Len(ReqSegs) /\ Cardinality(D) >= 2 =>
            /\ Len(resp.params) >= 1
            /\ resp.params[1] = <<c, seg>>
            /\ resp.h \in {NotFound, MethodNotAllowed}
                  \cup {regs[j].handler : j \in {k \in DOMAIN regs :
                            IsPrefix(Append(p, c), regs[k].parts)}}

\* The first matching child took the request and its subtree had no
\* handler for it, while a route below a later sibling matches the request.
C10_Witness ==
    LET n == Descent(0)
        p == SubSeq(ReqSegs, 1, n)
    IN  /\ Served
        /\ n < Len(ReqSegs)
        /\ Cardinality(DynamicUnder(p, ReqSegs[n + 1])) >= 2
        /\ resp.h = NotFound
        /\ \E j \in DOMAIN regs : RouteMatches(regs[j], ReqSegs)

----------------------------------------------------------------------------
\* The registration was made with no method argument or a blank one.
NoMethods(r) ==
    \/ r.httpMethods = <<>>
    \/ \A k \in DOMAIN r.httpMethods[1] : r.httpMethods[1][k] = " "

\* The request is for route i and carries its version: its segments are the
\* route's (a literal route), or it was resolved at the route's catch-all node.
ForRoute(i) ==
    /\ Served
    /\ ReqVersion = regs[i].version
    /\ IF IsCatchallRoute(regs[i])
       THEN resp.via = "catchall" /\ resp.at = regs[i].parts
       ELSE IsLiteralRoute(regs[i].parts) /\ ReqSegs = regs[i].parts

\* The registrations that share the handler table route i is resolved
\* from: same path and version; for a catch-all route, same path.
Sharing(i) ==
    {j \in DOMAIN regs :
        IF IsCatchallRoute(regs[i]) THEN regs[j].parts = regs[i].parts
        ELSE SamePlace(i, j)}

----------------------------------------------------------------------------
\* The request is for the path of route i: its segments are the route's (a
\* literal route), or they extend the prefix of the catch-all route by a
\* segment that no registered route continues.
ForPath(i) ==
    /\ Served
    /\ IF IsCatchallRoute(regs[i])
       THEN /\ i \in CatchallsOver
            /\ IsLiteralRoute(Prefix(regs[i]))
            /\ ~Continues(Prefix(regs[i]), ReqSegs[Len(Prefix(regs[i])) + 1])
       ELSE IsLiteralRoute(regs[i].parts) /\ ReqSegs = regs[i].parts

\* C5 -- routes on one path that differ by version resolve independently: a
\* request for the path that carries the version of a route (none, for the
\* version-less route) and a method the route accepts is answered by that
\* route's handler, whatever was registered before or after it for other
\* versions.
C5_VersionsIndependent ==
    \A i \in DOMAIN regs :
        ( /\ ForPath(i)
          /\ ReqVersion = regs[i].version
          /\ Accepts(regs[i], req.method)
          /\ \A j \in DOMAIN regs : j # i => ~SamePlace(i, j)
        ) => resp.h = regs[i].handler

----------------------------------------------------------------------------
\* Concurrent requests: net/http runs ServeHTTP once per request, each call
\* on its own goroutine, against the router built before the server started.
\* One step per access to memory that outlives the step: the slice that
\* splitPath allocates, the descent of Trie.Get over it, the scan of match,
\* and the write path[0] = n.path.

MaxProcs == 2

\* The backing array of the slice that splitPath returns to call p: a fresh
\* allocation per call (strings.FieldsFunc, or the literal []string{"/"}).
SliceHome_shared(p) == 1

SliceHome(p) == p

\* The locals of a ServeHTTP call that is not running.
Idle ==
    [pc |-> "idle", req |-> NoReq, version |-> <<>>, node |-> Root,
     tab |-> <<>>, lo |-> 1, leaf |-> FALSE, params |-> <<>>, child |-> Root,
     out |-> Result(<<>>, <<>>, "none", Root)]

\* The slice `path` of call p: its backing array from the slice's start.
View(p) == SubSeq(mem[SliceHome(p)], procs[p].lo, Len(mem[SliceHome(p)]))

ConcFrame == UNCHANGED <<dynamicRoutes, routes, regs, last, call, ret, req, resp, served1>>

\* Lines 237-246, up to the call of splitPath: the version is read from the
\* Accept header and the path is split into a new slice.
P_Split(p, r) ==
    /\ procs[p].pc = "idle"
    /\ mem' = [mem EXCEPT ![SliceHome(p)] = splitPath(r.path)]
    /\ procs' = [procs EXCEPT ![p] =
                    [Idle EXCEPT !.pc = "get", !.req = r,
                                 !.version = requestVersion(r.accept)]]
    /\ ConcFrame

\* v.routes.Get (line 246) and node.Get (line 183): the descent from the
\* current node over the slice; the remainder is a slice of the same array.
P_Get(p) ==
    /\ procs[p].pc = "get"
    /\ LET g == TrieGet(routes, procs[p].node, View(p), procs[p].version)
       IN  procs' = [procs EXCEPT ![p] =
                        [@ EXCEPT !.pc = "match", !.node = g.node, !.tab = g.Handler,
                                  !.lo = @ + (Len(View(p)) - Len(g.path)),
                                  !.leaf = g.leaf]]
    /\ UNCHANGED mem
    /\ ConcFrame

\* One activation of match (lines 172-209) up to its return or up to the
\* write of line 182.
P_Match(p) ==
    /\ procs[p].pc = "match"
    /\ LET me == procs[p]
           m == me.req.method
           s == DynScan(routes, dynamicRoutes, me.node, View(p))
           ret1(o) == [me EXCEPT !.pc = "done", !.out = o]
       IN  procs' = [procs EXCEPT ![p] =
              IF Len(me.tab) > 0 /\ me.leaf
              THEN ret1(Result(checkMethod(me.tab, m), me.params, "leaf", me.node))
              ELSE IF ~routes[me.node].HasRegex
              THEN ret1(matchCatchall(routes, me.node, View(p), me.params, m))
              ELSE IF s.kind = "fault" THEN ret1(Fault(me.params, me.node))
              ELSE IF s.kind = "hit"
              THEN [me EXCEPT !.pc = "write", !.child = s.child,
                              !.params = ParamsAdd(@, routes[s.child].path, View(p)[1])]
              ELSE ret1(matchCatchall(routes, me.node, View(p), me.params, m))]
    /\ UNCHANGED mem
    /\ ConcFrame

\* path[0] = n.path (line 182).
P_Write(p) ==
    /\ procs[p].pc = "write"
    /\ mem' = [mem EXCEPT ![SliceHome(p)] =
                 [k \in DOMAIN @ |->
                     IF k = procs[p].lo THEN routes[procs[p].child].path ELSE @[k]]]
    /\ procs' = [procs EXCEPT ![p].pc = "get"]
    /\ ConcFrame

\* The handler was dispatched and the call returned.
P_Return(p) ==
    /\ procs[p].pc = "done"
    /\ procs' = [procs EXCEPT ![p] = Idle]
    /\ UNCHANGED mem
    /\ ConcFrame

\* A built router: the calls of a script made in order on New().
RECURSIVE Build(_, _)
Build(script, st) ==
    IF script = <<>> THEN st
    ELSE LET c == Head(script)
         IN  IF c.op = "AddRegex"
             THEN Build(Tail(script),
                        [st EXCEPT !.dyn = DynSet(st.dyn, c.name, c.regex).dyn])
             ELSE LET h == HandleResult(st.routes, st.dyn, c.path,
                                        HandlerOf(st.n + 1), c.httpMethods)
                  IN  Build(Tail(script),
                            IF h.err # Nil THEN st
                            ELSE [st EXCEPT !.routes = h.routes, !.n = @ + 1])

CallRegex(name, regex) == [op |-> "AddRegex", name |-> name, regex |-> regex]
CallHandle(path, httpMethods) == [op |-> "Handle", path |-> path, httpMethods |-> httpMethods]

Scripts ==
    { << CallRegex(Id, RxDigits),
         CallHandle(<<"/", "a", "/", ":", "id", "/", "a">>, <<GET>>),
         CallHandle(<<"/", "a", "/", "*">>, <<GET>>) >>,
      << CallRegex(Id, RxDigits), CallRegex(Word, RxWord),
         CallHandle(<<"/", "a", "/", ":", "id">>, <<GET>>),
         CallHandle(<<"/", ":", "word", "/", ":", "id">>, <<>>) >> }

RequestsConc ==
    { [path |-> JoinPath(segs), method |-> GET, accept |-> <<>>] :
        segs \in { << <<"a">> >>, << <<"a">>, <<"a">> >>, << <<"a">>, <<"42">> >>,
                   << <<"a">>, <<"42">>, <<"a">> >>, << <<"42">>, <<"42">> >> } }

InitConc ==
    \E script \in Scripts :
        LET b == Build(script, [routes |-> (Root :> NewNode(<<>>)), dyn |-> <<>>, n |-> 0])
        IN  /\ dynamicRoutes = b.dyn
            /\ routes = b.routes
            /\ regs = <<>>
            /\ last = "ServeHTTP"
            /\ call = Nil
            /\ ret = Nil
            /\ req = NoReq
            /\ resp = Result(<<>>, <<>>, "none", Root)
            /\ served1 = [req |-> NoReq, resp |-> Result(<<>>, <<>>, "none", Root),
                          routes |-> <<>>, dynamicRoutes |-> <<>>]
            /\ mem = [p \in 1..MaxProcs |-> <<>>]
            /\ procs = [p \in 1..MaxProcs |-> Idle]

NextConc ==
    \E p \in 1..MaxProcs :
        \/ \E r \in RequestsConc : P_Split(p, r)
        \/ P_Get(p)
        \/ P_Match(p)
        \/ P_Write(p)
        \/ P_Return(p)

SpecConc == InitConc /\ [][NextConc]_vars

\* C8 -- every call that returned, whatever the other calls did in between,
\* returned the handler and the Params that its request gets when it is
\* matched alone against the same trie and registry, and faulted only if the
\* request faults alone.
C8_ConcurrentIsolation ==
    \A p \in DOMAIN procs :
        procs[p].pc = "done" =>
            LET alone == Serve(routes, dynamicRoutes, procs[p].req.path,
                               procs[p].req.method, procs[p].req.accept)
            IN  /\ procs[p].out.h = alone.h
                /\ procs[p].out.params = alone.params
                /\ procs[p].out.fault = alone.fault

\* A call returned a handler found through a dynamic segment while another
\* call stood between the write of its own path[0] and the descent that
\* reads it.
C8_Witness ==
    \E p, q \in DOMAIN procs :
        /\ p # q
        /\ procs[p].pc = "done"
        /\ procs[p].out.h \in {HandlerOf(1), HandlerOf(2)}
        /\ procs[p].out.params # <<>>
        /\ procs[q].pc = "get"
        /\ procs[q].params # <<>>

====
